---- MODULE Spec2Model ----
(***************************************************************************)
(* Model of src/controller.py: the client of the DT6220 controller.        *)
(*                                                                         *)
(*   DataSocket     the binary data port: inspect_header and get_data      *)
(*   ControlSocket  the telnet port: connect (drain) and command           *)
(*                                                                         *)
(* Bytes are the integers 0..255.  A byte string that the data port code   *)
(* handles (data_stream, payload, one frame) is always a contiguous piece  *)
(* of the bytes the device has sent on the connection, so it is kept as a  *)
(* window [lo, hi] of offsets into that stream: the window's bytes are the *)
(* stream's bytes lo+1..hi.  Slicing and appending are then exact and do   *)
(* not copy, which lets a packet declare a payload of 32768 bytes.         *)
(***************************************************************************)
EXTENDS Integers, Sequences, FiniteSets, TLC

\* ------------------------------------------------------------------ bounds
\* data_points of a get_data call ranges over 1..MaxDataPoints
MaxDataPoints == 2
\* the command calls made on one control connection
MaxCommands == 1

\* ------------------------------------------------------- program constants
\* the size of a packet header: struct format '<iiiqihhi', data_stream[0:32]
HeaderSize == 32
\* the argument of socket.recv
BuffSize == 65536

\* ------------------------------------------------------------ byte helpers
Byte == 0..255

Max(S) == CHOOSE x \in S : \A y \in S : y <= x

Range(s) == {s[k] : k \in 1..Len(s)}

\* little-endian bytes of a 16-bit field value
LE16(n) == <<n % 256, n \div 256>>

\* the documented reading of a 16-bit field: unsigned, little-endian
U16(bs, off) == bs[off + 1] + 256 * bs[off + 2]

\* struct code 'h': a signed little-endian short
UnpackShort(bs, off) ==
    IF U16(bs, off) >= 32768 THEN U16(bs, off) - 65536 ELSE U16(bs, off)

\* bit k (0 = least significant) of the 8-byte little-endian field at offset off
FieldBit(bs, off, k) == (bs[off + (k \div 8) + 1] \div (2 ^ (k % 8))) % 2

\* struct code 'q' followed by '{0:064b}'.format(v).count('1'): the field is read
\* as a signed 64-bit integer; a negative value is formatted as '-' and the
\* binary digits of its magnitude 2^64 - u, so the '1' characters counted are
\* those of the magnitude: the lowest set bit of u and every clear bit above it.
FormatCountOnes(bs, off) ==
    LET ones == {k \in 0..63 : FieldBit(bs, off, k) = 1}
    IN  IF FieldBit(bs, off, 63) = 0
        THEN Cardinality(ones)
        ELSE LET low == CHOOSE k \in ones : \A j \in ones : k <= j
             IN  1 + Cardinality({k \in (low + 1)..63 : FieldBit(bs, off, k) = 0})

\* inspect_header: the four values taken from the first 32 bytes
inspect_header(bs) ==
    LET nr_of_channels  == FormatCountOnes(bs, 12)
        nr_of_frames    == UnpackShort(bs, 26)     \* header[6]
        bytes_per_frame == UnpackShort(bs, 24)     \* header[5]
    IN  [nr_of_channels  |-> nr_of_channels,
         nr_of_frames    |-> nr_of_frames,
         bytes_per_frame |-> bytes_per_frame,
         payload_size    |-> bytes_per_frame * nr_of_frames]

\* ----------------------------------------------------------------- windows
\* bytes of the device's stream: the explicit bytes, then `pad` zero bytes
WireLen(w) == Len(w.bytes) + w.pad
WireByte(w, k) == IF k <= Len(w.bytes) THEN w.bytes[k] ELSE 0

EmptyAt(p) == [lo |-> p, hi |-> p]
WLen(win) == win.hi - win.lo
\* the bytes of a window, as a sequence
WBytes(w, win) == [k \in 1..WLen(win) |-> WireByte(w, win.lo + k)]

\* a Python slice index: negative counts from the end, then clamped to 0..len
PyIndex(x, len) ==
    IF x < 0 THEN (IF len + x < 0 THEN 0 ELSE len + x)
    ELSE (IF x > len THEN len ELSE x)

\* win[a:b]
PySlice(win, a, b) ==
    LET s == PyIndex(a, WLen(win))
        e == PyIndex(b, WLen(win))
    IN  [lo |-> win.lo + s, hi |-> win.lo + (IF e < s THEN s ELSE e)]

\* win[a:]
PySliceFrom(win, a) == [lo |-> win.lo + PyIndex(a, WLen(win)), hi |-> win.hi]

\* ------------------------------------------------------------------ values
\* An integer read from the stream is kept as its shortest little-endian
\* two's-complement byte string (a 64-bit sample does not fit TLC's integers):
\* two byte strings denote the same integer iff they trim to the same string.
RECURSIVE TrimInt(_)
TrimInt(bs) ==
    IF Len(bs) > 1
       /\ \/ bs[Len(bs)] = 0 /\ bs[Len(bs) - 1] < 128
          \/ bs[Len(bs)] = 255 /\ bs[Len(bs) - 1] >= 128
    THEN TrimInt(SubSeq(bs, 1, Len(bs) - 1))
    ELSE bs

Zero == <<0>>

\* np.frombuffer(frame, data_type)[channels]: the frame must hold whole items
\* (ValueError), every index must be inside it (IndexError)
FromBufferIndex(w, frame, channels, itemsize) ==
    IF WLen(frame) % itemsize # 0 THEN [err |-> "ValueError", row |-> <<>>]
    ELSE IF \E c \in Range(channels) : c >= WLen(frame) \div itemsize
    THEN [err |-> "IndexError", row |-> <<>>]
    ELSE [err |-> "none",
          row |-> [j \in 1..Len(channels) |->
                     TrimInt(WBytes(w, [lo |-> frame.lo + channels[j] * itemsize,
                                        hi |-> frame.lo + (channels[j] + 1) * itemsize]))]]

\* ------------------------------------------------- the device's data stream
\* A packet as the class docstring lays it out (Data Representation): preamble,
\* item nr., serial nr., channel field (8), unused (4), number of frames (2),
\* bytes per frame (2), frame counter (4), then the frames.
Header(field, frames, framebytes) ==
    <<77, 69, 65, 83>> \o <<0, 0, 0, 0>> \o <<7, 0, 0, 0>> \o field
        \o <<0, 0, 0, 0>> \o LE16(frames) \o LE16(framebytes) \o <<0, 0, 0, 0>>

Packet(field, frames, framebytes, payload) == Header(field, frames, framebytes) \o payload

\* a 4-byte little-endian sample of a small value
Sample(n) == <<n, 0, 0, 0>>

OneChannel  == <<1, 0, 0, 0, 0, 0, 0, 0>>      \* slot 0 = 01
TwoChannels == <<5, 0, 0, 0, 0, 0, 0, 0>>      \* slots 0 and 1 = 01
NoChannel   == <<0, 0, 0, 0, 0, 0, 0, 0>>
TopBitField == <<5, 0, 0, 0, 0, 0, 0, 128>>    \* slots 0, 1 = 01, slot 31 = 10
PairThree   == <<3, 0, 0, 0, 0, 0, 0, 0>>      \* slot 0 = 11
HighChannel == <<0, 0, 0, 0, 0, 0, 0, 1>>      \* slot 28 = 01

\* one channel, 4 frames of 4 bytes
PktA == Packet(OneChannel, 4, 4, Sample(1) \o Sample(2) \o Sample(3) \o Sample(4))
\* two channels, 3 frames of 8 bytes: (10,20), (11,21), (12,22)
PktB == Packet(TwoChannels, 3, 8,
               Sample(10) \o Sample(20) \o Sample(11) \o Sample(21)
                   \o Sample(12) \o Sample(22))
\* two channels, 8 frames of 8 bytes: (30,40), (31,41), ...
PktC == Packet(TwoChannels, 8, 8,
               Sample(30) \o Sample(40) \o Sample(31) \o Sample(41)
                   \o Sample(32) \o Sample(42) \o Sample(33) \o Sample(43)
                   \o Sample(34) \o Sample(44) \o Sample(35) \o Sample(45)
                   \o Sample(36) \o Sample(46) \o Sample(37) \o Sample(47))
\* 4 frames of 1 byte (read the other way round: 1 frame of 4 bytes)
PktS == Packet(OneChannel, 4, 1, Sample(7))
\* a packet of 4 frames of 4 bytes that ends after the second frame: the
\* device has closed the connection
PktH == Header(OneChannel, 4, 4) \o Sample(1) \o Sample(2)
\* no frame
PktZ == Packet(TwoChannels, 0, 0, <<>>)
\* no frame, of a device that sends frames of 4 bytes
PktZ4 == Packet(OneChannel, 0, 4, <<>>)
\* channel fields with slots other than 00 and 01
PktM == Packet(TopBitField, 4, 4, Sample(1) \o Sample(2) \o Sample(3) \o Sample(4))
PktT == Packet(PairThree, 4, 4, Sample(1) \o Sample(2) \o Sample(3) \o Sample(4))
\* one channel, in slot 28
PktE == Packet(HighChannel, 4, 4, Sample(1) \o Sample(2) \o Sample(3) \o Sample(4))

\* one frame of 2^15 bytes, the least count a signed short reads as negative:
\* 32 zero bytes, the bytes of PktE, then zeros
BigFrameBytes == 2 ^ 15
BigHead == Header(OneChannel, 1, BigFrameBytes) \o [k \in 1..32 |-> 0] \o PktE
PktBig == [bytes |-> BigHead, pad |-> HeaderSize + BigFrameBytes - Len(BigHead)]

\* the packets by name
PacketBytes(name) ==
    CASE name = "A" -> PktA
      [] name = "B" -> PktB
      [] name = "C" -> PktC
      [] name = "S" -> PktS
      [] name = "H" -> PktH
      [] name = "Z" -> PktZ
      [] name = "Z4" -> PktZ4
      [] name = "M" -> PktM
      [] name = "T" -> PktT
      [] name = "Big" -> PktBig.bytes
PacketPad(name) == IF name = "Big" THEN PktBig.pad ELSE 0

\* what the device sends on one data connection: the named packets, in order
\* (the long packet and the packet cut short only as the last one)
Streams == {<<"A">>, <<"B">>, <<"C">>, <<"A", "A">>, <<"S">>, <<"S", "S">>, <<"H">>,
            <<"Z", "A">>, <<"Z4", "A">>, <<"M">>, <<"T">>, <<"Big">>}

RECURSIVE Concat(_)
Concat(names) ==
    IF names = <<>> THEN <<>> ELSE PacketBytes(Head(names)) \o Concat(Tail(names))

\* the bytes of a stream: explicit bytes, then `pad` zero bytes
Stream(names) == [bytes |-> Concat(names), pad |-> PacketPad(names[Len(names)])]

\* the channel lists a caller asks for (lists, which index element by element)
ChannelLists == {<<0>>, <<0, 1>>, <<1, 0>>}

\* np.dtype(int).itemsize: 8 where the C long is 64 bits wide (and with
\* numpy >= 2 everywhere), 4 where it is 32 bits wide
ItemSizes == {4, 8}

\* ------------------------------------------------------------------- state
VARIABLES
    \* the environment of the data port
    itemsize,               \* np.dtype(int).itemsize on this platform
    wire,                   \* the packets the device sends on the data connection
    rcvd,                   \* how many of them recv has returned so far
    d_eof,                  \* the device has closed the data connection
    \* DataSocket
    data_socket,            \* self.data_socket: "none", "open", "unconnected", "closed"
    \* the frame of the running get_data call
    pc,                     \* "idle", the line the call is at, or "done"
    data_points, channels,  \* its arguments
    data_stream,            \* the window of received bytes it holds
    data,                   \* np.zeros((data_points, len(channels))), then the rows
    received_data_points,
    hdr,                    \* nr_of_channels, nr_of_frames, bytes_per_frame, payload_size
    payload,
    i,                      \* the index of the for loop
    outcome,                \* "none", "return", or the exception that left the call
    result,                 \* the returned array
    result_shape,           \* its shape attribute
    \* history, for the properties
    call_start,             \* rcvd when the running call started
    timed_out,              \* a recv of the running call has timed out
    clean                   \* every earlier call on the connection has returned

VARIABLES
    \* the environment of the control port
    greeting,               \* what the device sends when it accepts the connection
    c_flight,               \* segments the device has sent that have not arrived yet
    c_cooked,               \* bytes that have arrived and that read_eager would return
    c_eof,                  \* the device has closed the connection
    \* ControlSocket
    control_socket,         \* self.control_socket: "none", "open", "unconnected", "closed"
    cpc,                    \* "idle", or the line the running connect or command is at
    c_call,                 \* the last call started: "none", "connect", "command"
    com_arg,                \* the argument of the last command call
    com,                    \* the command after lines 133-134
    response,               \* the reply after line 139
    c_outcome,              \* "none", "return", or the exception that left the call
    c_result,               \* the returned text
    \* history, for the properties
    c_ops,                  \* the transport operations of the last command call
    n_commands,             \* the command calls made on this connection
    c_first,                \* no command of this connection has read its reply yet
    drained,                \* the lengths of the chunks the drain loop has discarded
    c_stale,                \* greeting bytes that nothing has read yet
    c_early,                \* unread bytes that had arrived when connect returned
    resp_stale,             \* greeting bytes in the last reply read
    resp_early              \* bytes of the last reply that had arrived when connect returned

VARIABLES
    \* Controller.acquire
    apc,                    \* "idle", the line the running acquire is at, or "done"
    sampling_time,          \* the argument: <<>> for None, <<t>> for t ms
    sst_result,             \* how set_sampling_time ended: "none" while it has not
    cs_result,              \* how check_status ended: "none" while it has not
    response1,              \* the local of check_status
    status_response,        \* self.status_response: <<>> for None
    a_outcome               \* "none", "return", or the exception that left acquire

avars == <<apc, sampling_time, sst_result, cs_result, response1, status_response,
           a_outcome>>

cvars == <<greeting, c_flight, c_cooked, c_eof, control_socket, cpc, c_call, com_arg,
           com, response, c_outcome, c_result, c_ops, n_commands, c_first, drained, c_stale,
           c_early, resp_stale, resp_early>>

\* what a get_data call never assigns
data_env == <<itemsize, wire, data_socket, data_points, channels, call_start, clean,
              d_eof, cvars, avars>>
\* the locals of a call other than data_stream
locals == <<data, received_data_points, hdr, payload, i>>

dvars == <<itemsize, wire, rcvd, data_socket, pc, data_points, channels,
           data_stream, data, received_data_points, hdr, payload, i, outcome,
           result, result_shape, call_start, timed_out, clean, d_eof>>

vars == <<dvars, cvars, avars>>

NoHeader == [nr_of_channels |-> 0, nr_of_frames |-> 0, bytes_per_frame |-> 0,
             payload_size |-> 0]

DataInit ==
    /\ itemsize \in ItemSizes
    /\ wire \in Streams
    /\ data_points \in 1..MaxDataPoints
    /\ channels \in ChannelLists
    /\ rcvd = 0
    /\ data_socket = "none"
    /\ pc = "idle"
    /\ data_stream = EmptyAt(0)
    /\ data = <<>>
    /\ received_data_points = 0
    /\ hdr = NoHeader
    /\ payload = EmptyAt(0)
    /\ i = 0
    /\ outcome = "none"
    /\ result = <<>>
    /\ result_shape = <<>>
    /\ d_eof = FALSE
    /\ call_start = 0
    /\ timed_out = FALSE
    /\ clean = TRUE

\* ------------------------------------------------------ DataSocket.connect
DataConnectCall ==
    /\ data_socket = "none"
    /\ \/ data_socket' = "open"
       \/ data_socket' = "unconnected"          \* OSError: DeviceError is raised
    /\ UNCHANGED <<itemsize, wire, rcvd, pc, data_points, channels, data_stream,
                   locals, outcome, result, result_shape, call_start, timed_out, clean,
                   d_eof, cvars>>

DataConnect == DataConnectCall /\ UNCHANGED avars

\* DataSocket.disconnect
DataDisconnectCall ==
    /\ data_socket = "open"
    /\ pc \in {"idle", "done"}
    /\ data_socket' = "closed"
    /\ UNCHANGED <<itemsize, wire, rcvd, pc, data_points, channels, data_stream,
                   locals, outcome, result, result_shape, call_start, timed_out, clean,
                   d_eof, cvars>>

DataDisconnect == DataDisconnectCall /\ UNCHANGED avars

\* the device closes the data connection
DataPeerClose ==
    /\ data_socket = "open"
    /\ ~d_eof
    /\ d_eof' = TRUE
    /\ UNCHANGED <<itemsize, wire, rcvd, data_socket, pc, data_points, channels,
                   data_stream, locals, outcome, result, result_shape, call_start,
                   timed_out, clean, cvars, avars>>

\* ----------------------------------------------------- DataSocket.get_data
\* the connection is closed and every byte the device sent has been received:
\* recv returns b'' at once, and does not time out
AtEOF == d_eof /\ rcvd = WireLen(Stream(wire))

\* the offsets at which the documented layout starts a packet of the stream
\* (the last one is where the stream ends, or the first one beyond its end)
RECURSIVE Boundaries(_, _)
Boundaries(w, b) ==
    IF b + HeaderSize > WireLen(w) THEN {b}
    ELSE LET h == WBytes(w, [lo |-> b, hi |-> b + HeaderSize])
         IN  {b} \cup Boundaries(w, b + HeaderSize + U16(h, 24) * U16(h, 26))

\* Where a chunk returned by recv may end.  recv returns what has arrived, at
\* least one byte and at most 65536; the model lets the device's bytes arrive
\* up to one byte before, exactly at, or one or two bytes after each packet
\* start and each end of a header, and all at once.
CutOffsets == {-1, 0, 1, 2, HeaderSize - 1, HeaderSize, HeaderSize + 1}
Cuts(w) ==
    {p \in {b + d : b \in Boundaries(w, 0), d \in CutOffsets} : p >= 0 /\ p <= WireLen(w)}
        \cup {WireLen(w)}

\* the sizes one recv(65536) can return after `got` bytes of the stream
ChunkSizes(w, got) ==
    {p - got : p \in {q \in Cuts(w) : q > got /\ q - got <= BuffSize}}

\* data_stream += self.data_socket.recv(65536)
Recv(k) ==
    /\ data_stream' = [data_stream EXCEPT !.hi = @ + k]
    /\ rcvd' = rcvd + k

\* lines 283-286: the call starts with an empty buffer and a zeroed array
NewBuffer(old, at) == EmptyAt(at)

GetDataCall ==
    /\ data_socket = "open"
    /\ pc \in {"idle", "done"}
    /\ call_start' = rcvd
    /\ clean' = (clean /\ (pc = "idle" \/ outcome = "return"))
    /\ timed_out' = FALSE
    /\ data_stream' = NewBuffer(data_stream, rcvd)
    /\ data' = [n \in 1..data_points |-> [c \in 1..Len(channels) |-> Zero]]
    /\ received_data_points' = 0
    /\ hdr' = NoHeader
    /\ payload' = EmptyAt(rcvd)
    /\ i' = 0
    /\ outcome' = "none"
    /\ result' = <<>>
    /\ result_shape' = <<>>
    /\ pc' = "L287"
    /\ UNCHANGED <<itemsize, wire, rcvd, data_socket, data_points, channels, d_eof, cvars>>

GetData == GetDataCall /\ UNCHANGED avars

Transpose(d, rows, cols) == [c \in 1..cols |-> [n \in 1..rows |-> d[n][c]]]

\* ndarray.shape of a.T and of a[0]
ShapeT(shape) == [k \in 1..Len(shape) |-> shape[Len(shape) + 1 - k]]
ShapeItem(shape) == Tail(shape)
\* lines 310-313: the shape of data.T[0] and of data.T
NormalShape(shape, chs) ==
    IF Len(chs) = 1 THEN ShapeItem(ShapeT(shape)) ELSE ShapeT(shape)

\* lines 310-313
NormalReturn(d, n, chs) ==
    IF Len(chs) = 1 THEN Transpose(d, n, Len(chs))[1] ELSE Transpose(d, n, Len(chs))

\* line 287: while received_data_points < data_points, else lines 310-313
WhileDataPoints ==
    /\ pc = "L287"
    /\ IF received_data_points < data_points
       THEN /\ pc' = "L288"
            /\ UNCHANGED <<outcome, result, result_shape>>
       ELSE /\ pc' = "done"
            /\ outcome' = "return"
            /\ result' = NormalReturn(data, data_points, channels)
            /\ result_shape' = NormalShape(<<data_points, Len(channels)>>, channels)
    /\ UNCHANGED <<data_env, rcvd, data_stream, locals, timed_out>>

\* line 288: while len(data_stream) < 32
HeaderReady(win) == WLen(win) >= HeaderSize

\* lines 288-290: a recv while fewer than 32 bytes are buffered
RecvHeader ==
    /\ pc = "L288"
    /\ ~HeaderReady(data_stream)
    /\ \E k \in ChunkSizes(Stream(wire), rcvd) : Recv(k)
    /\ UNCHANGED <<data_env, pc, locals, outcome, result, result_shape, timed_out>>

\* lines 291-293: socket.timeout in the header loop returns data as it is
RecvHeaderTimeout ==
    /\ pc = "L288"
    /\ ~HeaderReady(data_stream)
    /\ ~AtEOF
    /\ timed_out' = TRUE
    /\ pc' = "done"
    /\ outcome' = "return"
    /\ result' = data
    /\ result_shape' = <<data_points, Len(channels)>>
    /\ UNCHANGED <<data_env, rcvd, data_stream, locals>>

\* line 290 on a closed connection: recv returns b''
RecvHeaderEmpty ==
    /\ pc = "L288"
    /\ ~HeaderReady(data_stream)
    /\ AtEOF
    /\ pc' = "L290"
    /\ UNCHANGED <<data_env, rcvd, data_stream, locals, outcome, result, result_shape,
                   timed_out>>

\* line 290: data_stream += b'', and back to the test of line 288
ExtendHeaderEmpty ==
    /\ pc = "L290"
    /\ data_stream' = [data_stream EXCEPT !.hi = @ + 0]
    /\ pc' = "L288"
    /\ UNCHANGED <<data_env, rcvd, locals, outcome, result, result_shape, timed_out>>

\* line 296: max(channels) + 1 > nr_of_channels
OutOfRange(chs, h) == Max(Range(chs)) + 1 > h.nr_of_channels

\* lines 294-298: the header is inspected, the channels are checked
InspectHeader ==
    /\ pc = "L288"
    /\ HeaderReady(data_stream)
    /\ hdr' = inspect_header(WBytes(Stream(wire), PySlice(data_stream, 0, HeaderSize)))
    /\ IF OutOfRange(channels, hdr')
       THEN /\ pc' = "done"
            /\ outcome' = "DeviceError"
       ELSE /\ pc' = "L299"
            /\ UNCHANGED outcome
    /\ UNCHANGED <<data_env, rcvd, data_stream, data, received_data_points,
                   payload, i, result, result_shape, timed_out>>

\* line 299: while len(data_stream) < 32 + payload_size
PayloadReady(win, h) == WLen(win) >= HeaderSize + h.payload_size

\* lines 299-300: a recv while the payload is not complete
RecvPayload ==
    /\ pc = "L299"
    /\ ~PayloadReady(data_stream, hdr)
    /\ \E k \in ChunkSizes(Stream(wire), rcvd) : Recv(k)
    /\ UNCHANGED <<data_env, pc, locals, outcome, result, result_shape, timed_out>>

\* the timeout handled as the header loop handles it
RecvPayloadTimeoutReturns ==
    /\ pc = "L299"
    /\ ~PayloadReady(data_stream, hdr)
    /\ ~AtEOF
    /\ timed_out' = TRUE
    /\ pc' = "done"
    /\ outcome' = "return"
    /\ result' = data
    /\ result_shape' = <<data_points, Len(channels)>>
    /\ UNCHANGED <<data_env, rcvd, data_stream, locals>>

\* line 300 has no handler: socket.timeout leaves get_data
RecvPayloadTimeout ==
    /\ pc = "L299"
    /\ ~PayloadReady(data_stream, hdr)
    /\ ~AtEOF
    /\ timed_out' = TRUE
    /\ pc' = "done"
    /\ outcome' = "socket.timeout"
    /\ UNCHANGED <<data_env, rcvd, data_stream, locals, result, result_shape>>

\* line 300 on a closed connection: recv returns b''
RecvPayloadEmpty ==
    /\ pc = "L299"
    /\ ~PayloadReady(data_stream, hdr)
    /\ AtEOF
    /\ pc' = "L300"
    /\ UNCHANGED <<data_env, rcvd, data_stream, locals, outcome, result, result_shape,
                   timed_out>>

\* line 300: data_stream += b'', and back to the test of line 299
ExtendPayloadEmpty ==
    /\ pc = "L300"
    /\ data_stream' = [data_stream EXCEPT !.hi = @ + 0]
    /\ pc' = "L299"
    /\ UNCHANGED <<data_env, rcvd, locals, outcome, result, result_shape, timed_out>>

\* line 301: payload = data_stream[32:32 + payload_size]
SlicePayload ==
    /\ pc = "L299"
    /\ PayloadReady(data_stream, hdr)
    /\ payload' = PySlice(data_stream, HeaderSize, HeaderSize + hdr.payload_size)
    /\ i' = 0
    /\ pc' = "L302"
    /\ UNCHANGED <<data_env, rcvd, data_stream, data, received_data_points, hdr,
                   outcome, result, result_shape, timed_out>>

\* payload[i*bytes_per_frame:(i+1)*bytes_per_frame]
FrameSlice(pl, h, n) == PySlice(pl, n * h.bytes_per_frame, (n + 1) * h.bytes_per_frame)

\* the body of the for loop without the test of lines 307-308
StoreFrameUnchecked ==
    /\ pc = "L302"
    /\ i < hdr.nr_of_frames
    /\ LET got == FromBufferIndex(Stream(wire), FrameSlice(payload, hdr, i), channels, itemsize)
       IN  IF got.err # "none"
           THEN /\ pc' = "done"
                /\ outcome' = got.err
                /\ UNCHANGED <<data, received_data_points, i>>
           ELSE /\ data' = [n \in 1..data_points |->
                               IF n = received_data_points + 1 THEN got.row ELSE data[n]]
                /\ received_data_points' = received_data_points + 1
                /\ i' = i + 1
                /\ UNCHANGED <<pc, outcome>>
    /\ UNCHANGED <<data_env, rcvd, data_stream, hdr, payload, result, result_shape, timed_out>>

\* lines 302-306: one frame is written to the next row
StoreFrame ==
    /\ pc = "L302"
    /\ i < hdr.nr_of_frames
    /\ received_data_points < data_points
    /\ LET got == FromBufferIndex(Stream(wire), FrameSlice(payload, hdr, i), channels, itemsize)
       IN  IF got.err # "none"
           THEN /\ pc' = "done"
                /\ outcome' = got.err
                /\ UNCHANGED <<data, received_data_points, i>>
           ELSE /\ data' = [data EXCEPT ![received_data_points + 1] = got.row]
                /\ received_data_points' = received_data_points + 1
                /\ i' = i + 1
                /\ UNCHANGED <<pc, outcome>>
    /\ UNCHANGED <<data_env, rcvd, data_stream, hdr, payload, result, result_shape, timed_out>>

\* line 309: data_stream = data_stream[32+payload_size:]
DropPacket(win, h) == PySliceFrom(win, HeaderSize + h.payload_size)

\* lines 302, 307-309: the for loop ends (or breaks) and the packet is dropped
EndFrames ==
    /\ pc = "L302"
    /\ ~(i < hdr.nr_of_frames /\ received_data_points < data_points)
    /\ data_stream' = DropPacket(data_stream, hdr)
    /\ pc' = "L287"
    /\ UNCHANGED <<data_env, rcvd, locals, outcome, result, result_shape, timed_out>>

\* ============================================================ control port
\* Text and bytes of the control port are sequences of one-character strings;
\* a byte above 127 is the token HighByte.
CR == "\r"
LF == "\n"
HighByte == "0xE9"
IsAscii(b) == b # HighByte

Min2(a, b) == IF a < b THEN a ELSE b

\* str.replace(seq, "") for a one-character seq
Replace(s, seq) == SelectSeq(s, LAMBDA x : x # seq)
\* str.startswith, str.endswith
StartsWith(s, p) == Len(p) <= Len(s) /\ SubSeq(s, 1, Len(p)) = p
EndsWith(s, p) == Len(p) <= Len(s) /\ SubSeq(s, Len(s) - Len(p) + 1, Len(s)) = p
\* s[a:] for a >= 0 and s[:-n]
SliceFrom(s, a) == SubSeq(s, a + 1, Len(s))
SliceDropLast(s, n) == SubSeq(s, 1, Len(s) - n)
\* str.strip(chars)
RECURSIVE LStrip(_, _)
LStrip(s, chars) ==
    IF s # <<>> /\ Head(s) \in chars THEN LStrip(Tail(s), chars) ELSE s
RECURSIVE RStrip(_, _)
RStrip(s, chars) ==
    IF s # <<>> /\ s[Len(s)] \in chars THEN RStrip(SubSeq(s, 1, Len(s) - 1), chars) ELSE s
Strip(s, chars) == RStrip(LStrip(s, chars), chars)

\* bytes.decode('ascii') and str.encode('ascii'): the same code points, and
\* an error on a byte or character above 127
Decode(bs) ==
    IF \A k \in 1..Len(bs) : IsAscii(bs[k])
    THEN [err |-> "none", text |-> bs]
    ELSE [err |-> "UnicodeDecodeError", text |-> <<>>]
Encode(text) ==
    IF \A k \in 1..Len(text) : IsAscii(text[k])
    THEN [err |-> "none", bytes |-> text]
    ELSE [err |-> "UnicodeEncodeError", bytes |-> <<>>]

OkText == <<"O", "K">>
UnknownCommandText ==
    <<"$", "U", "N", "K", "N", "O", "W", "N", " ", "C", "O", "M", "M", "A", "N", "D">>
WrongParameterText ==
    <<"$", "W", "R", "O", "N", "G", " ", "P", "A", "R", "A", "M", "E", "T", "E", "R">>

\* the loop of lines 133-134 with CR alone
StripCR(text) == Replace(text, CR)

\* line 133-134: for seq in "\r\n": com = com.replace(seq, "")
StripSeqs(text) == Replace(Replace(text, CR), LF)

\* line 136: b"$" + com.encode('ascii') + b"\r\n"
Framed(c) == <<"$">> \o Encode(c).bytes \o <<CR, LF>>

\* the classification without the test of the echo
ClassifyLoose(c, r) ==
    LET rest == SliceFrom(r, Len(c) + 1)
    IN  IF EndsWith(rest, OkText)
        THEN [outcome |-> "return", value |-> SliceDropLast(rest, 2)]
        ELSE IF rest = UnknownCommandText
        THEN [outcome |-> "DeviceError: Unknown command", value |-> <<>>]
        ELSE IF rest = WrongParameterText
        THEN [outcome |-> "DeviceError: Wrong parameter", value |-> <<>>]
        ELSE [outcome |-> "DeviceError: Unexpected response", value |-> <<>>]

\* the classification with the failure replies compared to the whole reply
ClassifyWhole(c, r) ==
    IF StartsWith(r, <<"$">> \o c) /\ EndsWith(SliceFrom(r, Len(c) + 1), OkText)
    THEN [outcome |-> "return", value |-> SliceDropLast(SliceFrom(r, Len(c) + 1), 2)]
    ELSE IF r = UnknownCommandText
    THEN [outcome |-> "DeviceError: Unknown command", value |-> <<>>]
    ELSE IF r = WrongParameterText
    THEN [outcome |-> "DeviceError: Wrong parameter", value |-> <<>>]
    ELSE [outcome |-> "DeviceError: Unexpected response", value |-> <<>>]

\* lines 143-151: what the call does with the stripped reply
Classify(c, r) ==
    IF StartsWith(r, <<"$">> \o c)
    THEN LET rest == SliceFrom(r, Len(c) + 1)
         IN  IF EndsWith(rest, OkText)
             THEN [outcome |-> "return", value |-> SliceDropLast(rest, 2)]
             ELSE IF rest = UnknownCommandText
             THEN [outcome |-> "DeviceError: Unknown command", value |-> <<>>]
             ELSE IF rest = WrongParameterText
             THEN [outcome |-> "DeviceError: Wrong parameter", value |-> <<>>]
             ELSE [outcome |-> "DeviceError: Unexpected response", value |-> <<>>]
    ELSE [outcome |-> "DeviceError: Unexpected response", value |-> <<>>]

\* ---------------------------------------------------------------- the device
\* the command texts a caller passes (Controller passes "STI...", "STS", "VER")
Commands == {<<"S", "T", "S">>, <<"S", CR, "T", "S", LF>>, <<"U">>}

\* the greetings of the device
Greetings == {<<>>, <<"H", "i", CR, LF>>}

\* what the device may answer to the command c
Replies(c) ==
    LET echo == <<"$">> \o c
    IN  { echo \o OkText \o <<CR, LF>>,
          echo \o <<",", "7">> \o OkText \o <<CR, LF>>,
          echo \o UnknownCommandText \o <<CR, LF>>,
          echo \o WrongParameterText \o <<CR, LF>>,
          UnknownCommandText \o <<CR, LF>>,
          WrongParameterText \o <<CR, LF>>,
          echo \o <<HighByte>> \o OkText \o <<CR, LF>>,
          <<>> }

\* where the transport may split a message of the device into two segments:
\* nowhere, after the first byte, after the echo, before "OK", before CR LF
SplitPoints(msg, c) ==
    {0} \cup ({1, Len(c) + 1, Len(msg) - 4, Len(msg) - 2} \cap 1..(Len(msg) - 1))
Segments(msg, c) ==
    { IF k = 0 THEN (IF msg = <<>> THEN <<>> ELSE <<msg>>)
      ELSE <<SubSeq(msg, 1, k), SubSeq(msg, k + 1, Len(msg))>> : k \in SplitPoints(msg, c) }


ControlInit ==
    /\ greeting = <<>>
    /\ c_flight = <<>>
    /\ c_cooked = <<>>
    /\ c_eof = FALSE
    /\ control_socket = "none"
    /\ cpc = "idle"
    /\ c_call = "none"
    /\ com_arg = <<>>
    /\ com = <<>>
    /\ response = <<>>
    /\ c_outcome = "none"
    /\ c_result = <<>>
    /\ c_ops = <<>>
    /\ n_commands = 0
    /\ c_first = TRUE
    /\ drained = <<>>
    /\ c_stale = 0
    /\ c_early = 0
    /\ resp_stale = 0
    /\ resp_early = 0

\* a segment arrives at the client
Arrive ==
    /\ control_socket = "open"
    /\ c_flight # <<>>
    /\ c_cooked' = c_cooked \o Head(c_flight)
    /\ c_flight' = Tail(c_flight)
    /\ UNCHANGED <<greeting, c_eof, control_socket, cpc, c_call, com_arg, com, response,
                   c_outcome, c_result, c_ops, n_commands, c_first, drained, c_stale,
                   c_early, resp_stale, resp_early, dvars, avars>>

\* the device closes the connection
PeerClose ==
    /\ control_socket = "open"
    /\ ~c_eof
    /\ c_eof' = TRUE
    /\ UNCHANGED <<greeting, c_flight, c_cooked, control_socket, cpc, c_call, com_arg, com,
                   response, c_outcome, c_result, c_ops, n_commands, c_first, drained,
                   c_stale, c_early, resp_stale, resp_early, dvars, avars>>

\* Telnet.read_eager: EOFError when the connection is closed and nothing is
\* left to read, otherwise everything that has arrived (possibly nothing)
ReadEager(cooked, flight, eof) ==
    IF cooked = <<>> /\ flight = <<>> /\ eof
    THEN [err |-> "EOFError", chunk |-> <<>>]
    ELSE [err |-> "none", chunk |-> cooked]

\* ---------------------------------------------------- ControlSocket.connect
\* lines 93-100: Telnet() and open(), then the sleep
ControlConnectCall ==
    /\ control_socket \in {"none", "unconnected", "closed"}
    /\ cpc = "idle"
    /\ c_call' = "connect"
    /\ c_cooked' = <<>>
    /\ c_eof' = FALSE
    /\ n_commands' = 0
    /\ c_first' = TRUE
    /\ drained' = <<>>
    /\ c_early' = 0
    /\ resp_stale' = 0
    /\ resp_early' = 0
    /\ \/ /\ control_socket' = "open"
          /\ \E g \in Greetings :
                /\ greeting' = g
                /\ c_flight' \in Segments(g, <<>>)
                /\ c_stale' = Len(g)
          /\ cpc' = "L101"
          /\ c_outcome' = "none"
       \/ /\ control_socket' = "unconnected"                \* OSError
          /\ greeting' = <<>>
          /\ c_flight' = <<>>
          /\ c_stale' = 0
          /\ cpc' = "idle"
          /\ c_outcome' = "DeviceError: Could not connect"
    /\ UNCHANGED <<com_arg, com, response, c_result, c_ops, dvars>>

ControlConnect == ControlConnectCall /\ UNCHANGED avars

\* connect without the drain loop
ConnectWithoutDrain ==
    /\ cpc = "L101"
    /\ cpc' = "idle"
    /\ c_outcome' = "return"
    /\ c_early' = Len(c_cooked)
    /\ UNCHANGED <<greeting, c_flight, c_cooked, c_eof, control_socket, c_call, com_arg, com,
                   response, c_result, c_ops, n_commands, c_first, drained, c_stale,
                   resp_stale, resp_early, dvars, avars>>

\* lines 101-105: one turn of `while self.control_socket.read_eager(): pass`
DrainRead ==
    /\ cpc = "L101"
    /\ LET got == ReadEager(c_cooked, c_flight, c_eof)
       IN  IF got.err = "EOFError"
           THEN /\ c_outcome' = "DeviceError: Connection closed unexpectedly"
                /\ cpc' = "idle"
                /\ UNCHANGED <<c_cooked, drained, c_stale, c_early>>
           ELSE /\ c_cooked' = <<>>
                /\ c_stale' = c_stale - Len(got.chunk)
                /\ IF got.chunk # <<>>
                   THEN /\ drained' = Append(drained, Len(got.chunk))
                        /\ UNCHANGED <<cpc, c_outcome, c_early>>
                   ELSE /\ cpc' = "idle"
                        /\ c_outcome' = "return"
                        /\ c_early' = Len(c_cooked')
                        /\ UNCHANGED drained
    /\ UNCHANGED <<greeting, c_flight, c_eof, control_socket, c_call, com_arg, com, response,
                   c_result, c_ops, n_commands, c_first, resp_stale, resp_early, dvars, avars>>

\* ControlSocket.disconnect
ControlDisconnectCall ==
    /\ control_socket = "open"
    /\ cpc = "idle"
    /\ control_socket' = "closed"
    /\ c_flight' = <<>>
    /\ c_cooked' = <<>>
    /\ UNCHANGED <<greeting, c_eof, cpc, c_call, com_arg, com, response, c_outcome, c_result,
                   c_ops, n_commands, c_first, drained, c_stale, c_early, resp_stale,
                   resp_early, dvars>>

ControlDisconnect == ControlDisconnectCall /\ UNCHANGED avars

\* ---------------------------------------------------- ControlSocket.command
\* the write done twice
WriteTwice(ops, bs) ==
    Append(Append(ops, [op |-> "write", bytes |-> bs]), [op |-> "write", bytes |-> bs])

\* line 136: one write on the transport
WriteOps(ops, bs) == Append(ops, [op |-> "write", bytes |-> bs])
\* line 138: one read on the transport
ReadOps(ops) == Append(ops, [op |-> "read", bytes |-> <<>>])

\* lines 133-137: the command is stripped of CR and LF, framed and written;
\* the device answers (or not) while the caller sleeps
CommandCall(text) ==
    /\ control_socket = "open"
    /\ cpc = "idle"
    /\ n_commands' = n_commands + 1
    /\ com_arg' = text
    /\ com' = StripSeqs(text)
    /\ c_call' = "command"
    /\ c_ops' = WriteOps(<<>>, Framed(StripSeqs(text)))
    /\ response' = <<>>
    /\ c_result' = <<>>
    /\ resp_stale' = 0
    /\ resp_early' = 0
    /\ \/ /\ c_eof                                          \* OSError on the write
          /\ c_outcome' = "DeviceError: Could not execute command"
          /\ cpc' = "idle"
          /\ UNCHANGED c_flight
       \/ /\ c_outcome' = "none"
          /\ cpc' = "L137"
          /\ \E r \in Replies(StripSeqs(text)) :
                \E segs \in Segments(r, StripSeqs(text)) :
                   /\ c_eof => segs = <<>>
                   /\ c_flight' = c_flight \o segs
    /\ UNCHANGED <<greeting, c_cooked, c_eof, control_socket, c_first, drained,
                   c_stale, c_early, dvars>>

\* a command call of a client of the ControlSocket
Command ==
    /\ n_commands < MaxCommands
    /\ \E text \in Commands : CommandCall(text)
    /\ UNCHANGED avars

\* lines 138-151: the reply is read, decoded, stripped and classified
CommandRead ==
    /\ cpc = "L137"
    /\ cpc' = "idle"
    /\ c_ops' = ReadOps(c_ops)
    /\ LET got == ReadEager(c_cooked, c_flight, c_eof)
           text == Decode(got.chunk)
           r == Strip(text.text, {CR, LF})
           verdict == Classify(com, r)
       IN  IF got.err = "EOFError"
           THEN /\ c_outcome' = "DeviceError: Could not execute command"
                /\ UNCHANGED <<c_cooked, response, c_result, c_first, c_stale, c_early,
                               resp_stale, resp_early>>
           ELSE /\ c_cooked' = <<>>
                /\ c_first' = FALSE
                /\ resp_stale' = Min2(c_stale, Len(got.chunk))
                /\ c_stale' = c_stale - Min2(c_stale, Len(got.chunk))
                /\ resp_early' = Min2(c_early, Len(got.chunk))
                /\ c_early' = c_early - Min2(c_early, Len(got.chunk))
                /\ IF text.err # "none"
                   THEN /\ c_outcome' = text.err
                        /\ UNCHANGED <<response, c_result>>
                   ELSE /\ response' = r
                        /\ c_outcome' = verdict.outcome
                        /\ c_result' = verdict.value
    /\ UNCHANGED <<greeting, c_flight, c_eof, control_socket, c_call, com_arg, com, n_commands,
                   drained, dvars, avars>>

ControlNext ==
    \/ ControlConnect
    \/ DrainRead
    \/ ControlDisconnect
    \/ Command
    \/ CommandRead
    \/ Arrive
    \/ PeerClose

\* =============================================================== Controller
\* the exceptions of class DeviceError that a call of the ControlSocket raises
DeviceErrors ==
    {"DeviceError: Could not connect", "DeviceError: Connection closed unexpectedly",
     "DeviceError: Could not execute command", "DeviceError: Unknown command",
     "DeviceError: Wrong parameter", "DeviceError: Unexpected response"}

DigitChars == <<"0", "1", "2", "3", "4", "5", "6", "7", "8", "9">>

\* "{}".format(n) for an integer n >= 0
RECURSIVE FormatInt(_)
FormatInt(n) ==
    IF n < 10 THEN <<DigitChars[n + 1]>>
    ELSE FormatInt(n \div 10) \o <<DigitChars[(n % 10) + 1]>>

\* float(text) of a text of digits and commas: ValueError unless it is a
\* string of digits that is not empty
FloatFails(text) == text = <<>> \/ \E k \in 1..Len(text) : text[k] \notin Range(DigitChars)

\* line 360: "STI{}".format(int(sampling_time * 1000))
StiCommand(t) == <<"S", "T", "I">> \o FormatInt(t * 1000)
StsCommand == <<"S", "T", "S">>
LinCommand == <<"L", "I", "N", "?">>

\* the sampling times of the calls of acquire
SamplingTimes == {<<>>, <<7>>}

\* lines 412-414: acquire(data_points, sampling_time, channels) starts
Acquire ==
    /\ apc = "idle"
    /\ \E st \in SamplingTimes :
          /\ sampling_time' = st
          /\ apc' = IF st # <<>> THEN "L358" ELSE "L378"
    /\ UNCHANGED <<sst_result, cs_result, response1, status_response, a_outcome,
                   dvars, cvars>>

\* ------------------------------------------- Controller.set_sampling_time
\* line 359: with self.control_socket as cs, which calls connect
SetSamplingTimeEnter ==
    /\ apc = "L358"
    /\ ControlConnectCall
    /\ apc' = "L359"
    /\ UNCHANGED <<sampling_time, sst_result, cs_result, response1, status_response,
                   a_outcome>>

\* connect has raised DeviceError: __exit__ is not called, lines 361-362 print
SetSamplingTimeEnterFails ==
    /\ apc = "L359"
    /\ cpc = "idle"
    /\ c_outcome \in DeviceErrors
    /\ sst_result' = "DeviceError"
    /\ apc' = "L378"
    /\ UNCHANGED <<sampling_time, cs_result, response1, status_response, a_outcome,
                   dvars, cvars>>

\* line 360: the STI command is sent
SetSamplingTimeCommand ==
    /\ apc = "L359"
    /\ cpc = "idle"
    /\ c_outcome = "return"
    /\ CommandCall(StiCommand(sampling_time[1]))
    /\ apc' = "L360"
    /\ UNCHANGED <<sampling_time, sst_result, cs_result, response1, status_response,
                   a_outcome>>

\* the with block is left, __exit__ disconnects; then lines 361-366: a
\* DeviceError is printed, any other exception leaves acquire, and the
\* returned text is stripped of commas and given to float
SetSamplingTimeExit ==
    /\ apc = "L360"
    /\ ControlDisconnectCall
    /\ IF c_outcome \in DeviceErrors
       THEN /\ sst_result' = "DeviceError"
            /\ apc' = "L378"
            /\ UNCHANGED a_outcome
       ELSE IF c_outcome # "return"
       THEN /\ sst_result' = c_outcome
            /\ apc' = "done"
            /\ a_outcome' = c_outcome
       ELSE IF FloatFails(Strip(c_result, {","}))
       THEN /\ sst_result' = "ValueError"
            /\ apc' = "done"
            /\ a_outcome' = "ValueError"
       ELSE /\ sst_result' = "return"
            /\ apc' = "L378"
            /\ UNCHANGED a_outcome
    /\ UNCHANGED <<sampling_time, cs_result, response1, status_response>>

\* ------------------------------------------------ Controller.check_status
\* line 379: with self.control_socket as cs, which calls connect
CheckStatusEnter ==
    /\ apc = "L378"
    /\ ControlConnectCall
    /\ apc' = "L379"
    /\ UNCHANGED <<sampling_time, sst_result, cs_result, response1, status_response,
                   a_outcome>>

\* connect has raised DeviceError: __exit__ is not called, lines 383-384 print
CheckStatusEnterFails ==
    /\ apc = "L379"
    /\ cpc = "idle"
    /\ c_outcome \in DeviceErrors
    /\ cs_result' = "DeviceError"
    /\ apc' = "L416"
    /\ UNCHANGED <<sampling_time, sst_result, response1, status_response, a_outcome,
                   dvars, cvars>>

\* line 380: response1 = cs.command("STS")
CheckStatusFirst ==
    /\ apc = "L379"
    /\ cpc = "idle"
    /\ c_outcome = "return"
    /\ CommandCall(StsCommand)
    /\ apc' = "L380"
    /\ UNCHANGED <<sampling_time, sst_result, cs_result, response1, status_response,
                   a_outcome>>

\* line 381: response2 = cs.command("LIN?")
CheckStatusSecond ==
    /\ apc = "L380"
    /\ cpc = "idle"
    /\ c_outcome = "return"
    /\ response1' = c_result
    /\ CommandCall(LinCommand)
    /\ apc' = "L381"
    /\ UNCHANGED <<sampling_time, sst_result, cs_result, status_response, a_outcome>>

\* the with block is left, __exit__ disconnects; then lines 382-392
CheckStatusExit ==
    /\ apc \in {"L380", "L381"}
    /\ apc = "L380" => c_outcome # "return"
    /\ ControlDisconnectCall
    /\ IF c_outcome \in DeviceErrors
       THEN /\ cs_result' = "DeviceError"
            /\ apc' = "L416"
            /\ UNCHANGED <<status_response, a_outcome>>
       ELSE IF c_outcome # "return"
       THEN /\ cs_result' = c_outcome
            /\ apc' = "done"
            /\ a_outcome' = c_outcome
            /\ UNCHANGED status_response
       ELSE /\ cs_result' = "return"
            /\ apc' = "L416"
            /\ status_response' = response1 \o <<";", "L", "I", "N">> \o c_result
            /\ UNCHANGED a_outcome
    /\ UNCHANGED <<sampling_time, sst_result, response1>>

\* ----------------------------------------------------- Controller.acquire
\* line 417: with self.data_socket as ds, which calls connect
AcquireEnter ==
    /\ apc = "L416"
    /\ DataConnectCall
    /\ apc' = "L417"
    /\ UNCHANGED <<sampling_time, sst_result, cs_result, response1, status_response,
                   a_outcome>>

\* connect has raised DeviceError: __exit__ is not called, lines 419-420 print
AcquireEnterFails ==
    /\ apc = "L417"
    /\ data_socket = "unconnected"
    /\ apc' = "done"
    /\ a_outcome' = "return None"
    /\ UNCHANGED <<sampling_time, sst_result, cs_result, response1, status_response,
                   dvars, cvars>>

\* line 418: ds.get_data(data_points, channels) is called
AcquireGetData ==
    /\ apc = "L417"
    /\ pc = "idle"
    /\ GetDataCall
    /\ apc' = "L418"
    /\ UNCHANGED <<sampling_time, sst_result, cs_result, response1, status_response,
                   a_outcome>>

\* the with block is left, __exit__ disconnects: the scaled data are returned
\* (scale assigns nothing), a DeviceError is printed, any other exception
\* leaves acquire
AcquireExit ==
    /\ apc = "L418"
    /\ pc = "done"
    /\ DataDisconnectCall
    /\ apc' = "done"
    /\ a_outcome' = IF outcome = "DeviceError" THEN "return None" ELSE outcome
    /\ UNCHANGED <<sampling_time, sst_result, cs_result, response1, status_response>>

\* ========================================================== specifications
\* the steps of a running get_data call
GetDataStep ==
    \/ WhileDataPoints
    \/ RecvHeader
    \/ RecvHeaderTimeout
    \/ RecvHeaderEmpty
    \/ ExtendHeaderEmpty
    \/ InspectHeader
    \/ RecvPayload
    \/ RecvPayloadTimeout
    \/ RecvPayloadEmpty
    \/ ExtendPayloadEmpty
    \/ SlicePayload
    \/ StoreFrame
    \/ EndFrames

DataNext ==
    \/ DataConnect
    \/ DataDisconnect
    \/ DataPeerClose
    \/ GetData
    \/ GetDataStep

\* no acquire has been called
ControllerInit ==
    /\ apc = "idle"
    /\ sampling_time = <<>>
    /\ sst_result = "none"
    /\ cs_result = "none"
    /\ response1 = <<>>
    /\ status_response = <<>>
    /\ a_outcome = "none"

\* the data port alone, the control port unused
DataSpecInit == DataInit /\ ControlInit /\ ControllerInit
DataSpec == DataSpecInit /\ [][DataNext]_vars

\* the data port with a call that always takes its next step: a recv on a
\* socket with a timeout returns bytes, returns b'' or times out
DataFairInit ==
    /\ DataSpecInit
    /\ itemsize = 4
    /\ wire \in {<<"A">>, <<"S", "S">>}
    /\ channels \in {<<0>>, <<0, 1>>}
DataFairSpec == DataFairInit /\ [][DataNext]_vars /\ WF_vars(GetDataStep)

\* the control port alone, the data port unused
DataUnused ==
    /\ DataInit
    /\ itemsize = 8
    /\ wire = <<"A">>
    /\ data_points = 1
    /\ channels = <<0>>
ControlSpecInit == DataUnused /\ ControlInit /\ ControllerInit
ControlSpec == ControlSpecInit /\ [][ControlNext]_vars

AcquireNext ==
    \/ Acquire
    \/ SetSamplingTimeEnter
    \/ SetSamplingTimeEnterFails
    \/ SetSamplingTimeCommand
    \/ SetSamplingTimeExit
    \/ CheckStatusEnter
    \/ CheckStatusEnterFails
    \/ CheckStatusFirst
    \/ CheckStatusSecond
    \/ CheckStatusExit
    \/ AcquireEnter
    \/ AcquireEnterFails
    \/ AcquireGetData
    \/ AcquireExit
    \/ DrainRead
    \/ CommandRead
    \/ Arrive
    \/ PeerClose
    \/ DataPeerClose
    \/ GetDataStep

\* one call of acquire on a new Controller
AcquireInit ==
    /\ DataInit
    /\ itemsize = 4
    /\ wire \in {<<"S">>, <<"H">>}
    /\ channels \in {<<0>>, <<0, 1>>}
    /\ ControlInit
    /\ ControllerInit
AcquireSpec == AcquireInit /\ [][AcquireNext]_vars


\* ------------------------------------------------- properties of the data port
\* the 32 bytes of the header that hdr was taken from
HeaderBytes == WBytes(Stream(wire), PySlice(data_stream, 0, HeaderSize))
\* hdr holds the header at the front of data_stream
HeaderDecoded == pc \in {"L299", "L302"} \/ (pc = "done" /\ outcome = "DeviceError")

\* the stream from offset `from` on is made of whole packets of the documented layout
WholePackets(w, from) ==
    from \in Boundaries(w, 0) /\ WireLen(w) \in Boundaries(w, 0)

\* get_data on the bytes from call_start on, all of them returned by the first recv
RECURSIVE OneChunkFrames(_, _, _, _, _)
OneChunkFrames(c, pl, h, k, st) ==
    IF k < h.nr_of_frames /\ st.rdp < c.n
    THEN LET got == FromBufferIndex(c.w, FrameSlice(pl, h, k), c.chs, c.isz)
         IN  IF got.err # "none" THEN [st EXCEPT !.err = got.err]
             ELSE OneChunkFrames(c, pl, h, k + 1,
                                 [data |-> [st.data EXCEPT ![st.rdp + 1] = got.row],
                                  rdp |-> st.rdp + 1, err |-> "none"])
    ELSE st

RECURSIVE OneChunkLoop(_, _, _)
OneChunkLoop(c, ds, st) ==
    IF st.rdp >= c.n
    THEN [outcome |-> "return", result |-> NormalReturn(st.data, c.n, c.chs)]
    ELSE IF ~HeaderReady(ds) THEN [outcome |-> "blocked", result |-> <<>>]
    ELSE LET h == inspect_header(WBytes(c.w, PySlice(ds, 0, HeaderSize)))
         IN  IF OutOfRange(c.chs, h) THEN [outcome |-> "DeviceError", result |-> <<>>]
             ELSE IF ~PayloadReady(ds, h) THEN [outcome |-> "blocked", result |-> <<>>]
             ELSE LET st2 == OneChunkFrames(
                                 c, PySlice(ds, HeaderSize, HeaderSize + h.payload_size),
                                 h, 0, st)
                      ds2 == DropPacket(ds, h)
                  IN  IF st2.err # "none" THEN [outcome |-> st2.err, result |-> <<>>]
                      ELSE IF ds2 = ds /\ st2.rdp = st.rdp
                      THEN [outcome |-> "no progress", result |-> <<>>]
                      ELSE OneChunkLoop(c, ds2, st2)

OneChunk ==
    OneChunkLoop([w |-> Stream(wire), isz |-> itemsize, n |-> data_points, chs |-> channels],
                 [lo |-> call_start, hi |-> WireLen(Stream(wire))],
                 [data |-> [n \in 1..data_points |-> [c \in 1..Len(channels) |-> Zero]],
                  rdp |-> 0, err |-> "none"])

\* C1: a call on a stream of whole packets that ends without a recv timing out
\* ends as the same call does when its first recv returns the whole stream: the
\* same return value or the same exception.
C1_ChunkIndependence ==
    (/\ pc = "done"
     /\ ~timed_out
     /\ WholePackets(Stream(wire), call_start)
     /\ WireLen(Stream(wire)) - call_start <= BuffSize)
        => [outcome |-> outcome, result |-> result] = OneChunk

\* the number of 2-bit slots of the channel field whose value is 01
PresentSlots(bs, off) ==
    Cardinality({p \in 0..31 : FieldBit(bs, off, 2 * p) = 1
                               /\ FieldBit(bs, off, 2 * p + 1) = 0})

\* The frames of the stream from packet start b on, as the documented layout
\* gives them: the packet's number of frames is the 16-bit field at offset 24,
\* its bytes per frame the one at offset 26.
RECURSIVE DocFrames(_, _)
DocFrames(w, b) ==
    IF b + HeaderSize > WireLen(w) THEN <<>>
    ELSE LET h == WBytes(w, [lo |-> b, hi |-> b + HeaderSize])
             frames == U16(h, 24)
             framebytes == U16(h, 26)
         IN  [j \in 1..frames |-> [lo |-> b + HeaderSize + (j - 1) * framebytes,
                                   hi |-> b + HeaderSize + j * framebytes]]
                 \o DocFrames(w, b + HeaderSize + frames * framebytes)

\* a frame holds a 4-byte little-endian integer per channel
DocRow(w, frame, chs) ==
    [j \in 1..Len(chs) |->
        TrimInt(WBytes(w, [lo |-> frame.lo + 4 * chs[j], hi |-> frame.lo + 4 * chs[j] + 4]))]

\* the stream holds n frames from offset `from` on, each with every requested
\* channel, in packets whose headers report those channels (and whose 16-bit
\* fields are below 2^15)
SuppliesFrames(w, from, n, chs) ==
    /\ WholePackets(w, from)
    /\ WireLen(w) <= BuffSize
    /\ \A b \in {p \in Boundaries(w, 0) : p >= from /\ p + HeaderSize <= WireLen(w)} :
          LET h == WBytes(w, [lo |-> b, hi |-> b + HeaderSize])
          IN  /\ PresentSlots(h, 12) > Max(Range(chs))
              /\ U16(h, 24) < 32768 /\ U16(h, 26) < 32768
    /\ Len(DocFrames(w, from)) >= n
    /\ \A j \in 1..n : WLen(DocFrames(w, from)[j]) >= 4 * (Max(Range(chs)) + 1)

\* C2: when the stream supplies data_points frames and no recv times out, a call
\* that has ended has returned, with data_points rows that are the first
\* data_points frames of the stream projected onto the channels asked for.
C2_ExactCount ==
    (/\ pc = "done"
     /\ ~timed_out
     /\ SuppliesFrames(Stream(wire), call_start, data_points, channels))
        => /\ outcome = "return"
           /\ received_data_points = data_points
           /\ data = [n \in 1..data_points |->
                        DocRow(Stream(wire), DocFrames(Stream(wire), call_start)[n], channels)]

\* C3: a call that follows a call that returned starts with the buffer that call
\* left: no received byte beyond the last consumed packet is lost, and the header
\* the call decodes first starts at a packet boundary of the stream.
C3_BufferContinuity ==
    /\ [][(pc = "done" /\ outcome = "return" /\ pc' = "L287")
              => data_stream' = data_stream]_vars
    /\ []((clean /\ HeaderDecoded /\ data_stream.lo = call_start)
              => call_start \in Boundaries(Stream(wire), 0))

\* C4: the channel range error is raised with the packet still whole at the front
\* of the buffer, and the buffer still holds it when get_data is called again.
C4_RangeFailureKeepsBuffer ==
    /\ [][(pc = "L288" /\ pc' = "done" /\ outcome' = "DeviceError")
              => (OutOfRange(channels, hdr') /\ data_stream' = data_stream)]_vars
    /\ [][(pc = "done" /\ outcome = "DeviceError" /\ pc' = "L287")
              => data_stream' = data_stream]_vars

\* C5: nr_of_frames is the 16-bit field at offset 24 and bytes_per_frame the one
\* at offset 26 of the header, payload_size is their product, and frame j of the
\* packet is payload bytes j*bytes_per_frame up to (j+1)*bytes_per_frame.
C5_HeaderFields ==
    HeaderDecoded =>
        /\ hdr.nr_of_frames = U16(HeaderBytes, 24)
        /\ hdr.bytes_per_frame = U16(HeaderBytes, 26)
        /\ hdr.payload_size = U16(HeaderBytes, 24) * U16(HeaderBytes, 26)
        /\ pc = "L302" =>
              \A j \in 0..(U16(HeaderBytes, 24) - 1) :
                  FrameSlice(payload, hdr, j)
                      = [lo |-> payload.lo + j * U16(HeaderBytes, 26),
                         hi |-> payload.lo + (j + 1) * U16(HeaderBytes, 26)]

\* C6: nr_of_channels is the number of slots of the channel field that hold 01.
C6_ChannelCount ==
    HeaderDecoded => hdr.nr_of_channels = PresentSlots(HeaderBytes, 12)

\* ---------------------------------------------- properties of the control port
\* a command call has ended
CommandDone == c_call = "command" /\ cpc = "idle"
\* ... after it has read and decoded a reply, which `response` holds stripped
Classified ==
    /\ CommandDone
    /\ c_outcome \in {"return", "DeviceError: Unknown command",
                      "DeviceError: Wrong parameter", "DeviceError: Unexpected response"}
Echo == <<"$">> \o com

\* C7: a command call returns a value exactly when the stripped reply is
\* '$' + command, a text, and 'OK', and the value is that text; the reply
\* '$' + command + '$UNKNOWN COMMAND' fails as unknown command, the reply
\* '$' + command + '$WRONG PARAMETER' as wrong parameter, every other reply as
\* unexpected response; a call that fails returns no text.
C7_Classification ==
    /\ Classified =>
          IF /\ Len(response) >= Len(Echo) + 2
             /\ response = Echo \o SubSeq(response, Len(Echo) + 1, Len(response) - 2) \o OkText
          THEN c_outcome = "return" /\ response = Echo \o c_result \o OkText
          ELSE IF response = Echo \o UnknownCommandText
          THEN c_outcome = "DeviceError: Unknown command"
          ELSE IF response = Echo \o WrongParameterText
          THEN c_outcome = "DeviceError: Wrong parameter"
          ELSE c_outcome = "DeviceError: Unexpected response"
    /\ (CommandDone /\ c_outcome # "return") => c_result = <<>>

\* a call has returned the parameter text of a reply
C7_Returned ==
    /\ Classified
    /\ c_outcome = "return"
    /\ c_result = <<",", "7">>
    /\ response = Echo \o <<",", "7">> \o OkText

\* C8, as claimed: the reply '$UNKNOWN COMMAND' (respectively '$WRONG
\* PARAMETER') with no echo of the command in front fails as unknown command
\* (respectively wrong parameter).
C8_BareFailureReply ==
    Classified =>
        /\ response = UnknownCommandText => c_outcome = "DeviceError: Unknown command"
        /\ response = WrongParameterText => c_outcome = "DeviceError: Wrong parameter"

\* C8, amended: the reply fails as unknown command (respectively wrong
\* parameter) when it is '$' + command + '$UNKNOWN COMMAND' (respectively
\* '$' + command + '$WRONG PARAMETER'); without the echo of the command in
\* front it fails as unexpected response.
C8_EchoedFailureReply ==
    Classified =>
        /\ response = Echo \o UnknownCommandText
              => c_outcome = "DeviceError: Unknown command"
        /\ response = Echo \o WrongParameterText
              => c_outcome = "DeviceError: Wrong parameter"
        /\ response \in {UnknownCommandText, WrongParameterText}
              => c_outcome = "DeviceError: Unexpected response"

\* the device has refused a command, with the echo in front
C8_Refused ==
    /\ Classified
    /\ response = Echo \o UnknownCommandText
    /\ c_outcome = "DeviceError: Unknown command"

\* C9: a command call writes the framed command once, then reads at most
\* once; it reads unless the write failed, and whatever fails, it ends
\* without a second write.
C9_SingleExchange ==
    LET write == [op |-> "write", bytes |-> <<"$">> \o com \o <<CR, LF>>]
        read == [op |-> "read", bytes |-> <<>>]
    IN  /\ (c_call = "command" /\ cpc = "L137") => c_ops = <<write>>
        /\ CommandDone => c_ops \in {<<write>>, <<write, read>>}
        /\ (CommandDone /\ c_ops = <<write>>)
              => c_outcome = "DeviceError: Could not execute command"

\* a call has failed on the reply it read, after one write and one read
C9_FailedOnce ==
    /\ CommandDone
    /\ c_outcome = "DeviceError: Unexpected response"
    /\ Len(c_ops) = 2

\* the first command call of the connection has read a reply
FirstReplyRead == CommandDone /\ n_commands = 1 /\ ~c_first

\* C10, as claimed: however the greeting arrives, the reply read by the
\* first command call holds no byte of it.
C10_NoStaleByte == FirstReplyRead => resp_stale = 0

\* C10, amended: connect discards every byte that has arrived when its drain
\* loop reads nothing, so the reply read by the first command call holds no
\* byte that had arrived when connect returned; a byte of the greeting that
\* arrives later is read with that reply.
C10_NoEarlyByte ==
    /\ (c_call = "connect" /\ c_outcome = "return") => c_early = 0
    /\ FirstReplyRead => resp_early = 0

\* a greeting that arrived in two chunks was discarded by the drain loop,
\* and the first command call has returned
C10_Drained ==
    /\ FirstReplyRead
    /\ greeting # <<>>
    /\ Len(drained) = 2
    /\ resp_stale = 0
    /\ c_outcome = "return"

\* ------------------------------------- properties of the data port, continued
\* the number of elements of an array of the given shape
RECURSIVE ShapeSize(_)
ShapeSize(shape) == IF shape = <<>> THEN 1 ELSE Head(shape) * ShapeSize(Tail(shape))

\* the call has returned from the handler of a timeout in the header loop
HeaderTimeoutReturn == pc = "done" /\ outcome = "return" /\ timed_out

\* C11: a call that returns after a timeout in the header loop returns exactly
\* the received_data_points samples collected so far for each channel, and
\* nothing when none was collected.
C11_ShortReturn ==
    HeaderTimeoutReturn => ShapeSize(result_shape) = received_data_points * Len(channels)

\* C12: with one channel every returned array is flat, one scalar per sample;
\* with several channels every returned array has one row per channel, as the
\* return after data_points samples has.
C12_Orientation ==
    (pc = "done" /\ outcome = "return") =>
        IF Len(channels) = 1
        THEN Len(result_shape) = 1
        ELSE Len(result_shape) = 2 /\ result_shape[1] = Len(channels)

\* C13: a recv that times out while the payload of a decoded header is
\* incomplete ends the call with an exception (socket.timeout, which nothing
\* in get_data handles): the call returns no array, and the step emits no
\* frame of the incomplete packet.
C13_PayloadTimeoutFails ==
    [][(pc = "L299" /\ ~timed_out /\ timed_out')
          => /\ pc' = "done"
             /\ outcome' \notin {"none", "return"}
             /\ result' = <<>>
             /\ data' = data
             /\ received_data_points' = received_data_points]_vars

\* a call has failed on the incomplete second packet, after the frame of the first
C13_SecondPacketIncomplete ==
    /\ pc = "done"
    /\ outcome = "socket.timeout"
    /\ received_data_points = 1
    /\ WLen(data_stream) > 0
    /\ result = <<>>

\* C14: once recv has returned b'' because the device closed the connection,
\* in the header loop or in the payload loop, the call ends.
C14_TerminatesOnEOF == (pc \in {"L290", "L300"}) ~> (pc = "done")

\* the header at the front of the buffer declares no frame (offset 24)
ZeroFrames == HeaderReady(data_stream) /\ U16(HeaderBytes, 24) = 0

\* C16: a packet whose header declares no frame, whatever bytes per frame it
\* declares, emits no sample and raises no error.
C16_ZeroFramePacket ==
    /\ (pc = "L302" /\ ZeroFrames) => i = 0
    /\ (pc = "done" /\ outcome \in {"ValueError", "IndexError"}) => ~ZeroFrames


\* C17: the two 16-bit fields of a decoded header are in 0..65535 and so
\* payload_size is not negative; the payload is sliced only when the buffer
\* holds 32 + payload_size bytes; and the drop that ends an iteration of the
\* loop removes exactly 32 + payload_size bytes, at least 32, from the front
\* of the buffer.
C17_ConsumptionProgress ==
    /\ HeaderDecoded =>
          /\ hdr.nr_of_frames \in 0..(2 ^ 16 - 1)
          /\ hdr.bytes_per_frame \in 0..(2 ^ 16 - 1)
          /\ hdr.payload_size >= 0
    /\ pc = "L302" =>
          /\ WLen(data_stream) >= HeaderSize + hdr.payload_size
          /\ HeaderSize + hdr.payload_size >= HeaderSize
          /\ DropPacket(data_stream, hdr).lo = data_stream.lo + HeaderSize + hdr.payload_size
          /\ DropPacket(data_stream, hdr).hi = data_stream.hi


\* get_data is running
InGetData == pc \notin {"idle", "done"}
\* a row of the buffer of line 285
ZeroRow == [c \in 1..Len(channels) |-> Zero]
\* the step of lines 303-306, which writes one row
RowWritten == pc = "L302" /\ pc' = "L302" /\ i' = i + 1

\* C19: while get_data runs, 0 <= received_data_points <= data_points and the
\* rows from index received_data_points on are still the zeros of line 285;
\* a step that writes a row writes the row at index received_data_points,
\* below data_points, leaves every other row alone and adds one to
\* received_data_points; no other step of the call changes the rows or the count.
C19_EmittedCount ==
    /\ [](InGetData =>
            /\ received_data_points \in 0..data_points
            /\ Len(data) = data_points
            /\ \A n \in (received_data_points + 1)..data_points : data[n] = ZeroRow)
    /\ [][InGetData =>
            IF RowWritten
            THEN /\ received_data_points < data_points
                 /\ received_data_points' = received_data_points + 1
                 /\ \A n \in 1..data_points :
                        n # received_data_points + 1 => data'[n] = data[n]
            ELSE /\ received_data_points' = received_data_points
                 /\ data' = data]_vars

\* the request is met while the packet still has frames
C19_RequestMetMidPacket ==
    /\ pc = "L302"
    /\ received_data_points = data_points
    /\ i < hdr.nr_of_frames
    /\ data[data_points] # ZeroRow


\* ------------------------------------- properties of the control port, continued
\* the text without its CR and LF characters
WithoutLineEnds(text) == SelectSeq(text, LAMBDA x : x \notin {CR, LF})
\* the bytes of the write of the last command call
Written == c_ops[1].bytes

\* C15: a command call on an ASCII command writes "$", the command without
\* its CR and LF characters, CR, LF: CR and LF are the last two bytes written
\* and occur nowhere before; the encoding does not fail; and the echo the
\* reply is compared with is "$" and the same command without CR and LF.
C15_CommandFraming ==
    c_call = "command" =>
        /\ c_ops # <<>> /\ c_ops[1].op = "write"
        /\ Written = <<"$">> \o WithoutLineEnds(com_arg) \o <<CR, LF>>
        /\ \A k \in 1..(Len(Written) - 2) : Written[k] \notin {CR, LF}
        /\ SubSeq(Written, Len(Written) - 1, Len(Written)) = <<CR, LF>>
        /\ Encode(com).err = "none"
        /\ c_outcome # "UnicodeEncodeError"
        /\ Echo = <<"$">> \o WithoutLineEnds(com_arg)
        /\ (cpc = "idle" /\ c_outcome = "return") => StartsWith(response, Echo)

\* a command that holds CR and LF has been answered with a success reply
C15_StrippedAnswered ==
    /\ c_call = "command"
    /\ cpc = "idle"
    /\ CR \in Range(com_arg) /\ LF \in Range(com_arg)
    /\ c_outcome = "return"


\* ------------------------------------------------ properties of the Controller
\* the transport handle of the ControlSocket exists and is not closed: the
\* Telnet object of line 93 holds a socket once open() has succeeded
ControlHandleOpen == control_socket = "open"
\* the transport handle of the DataSocket exists and is not closed: the
\* socket of line 226, connected or not
DataHandleOpen == data_socket \in {"open", "unconnected"}

\* set_sampling_time (if it was called) has been left and check_status not
\* yet entered; check_status has been left; acquire has been left
SetSamplingTimeLeft == apc = "L378"
CheckStatusLeft == apc \in {"L416", "L417", "L418", "done"}
AcquireLeft == apc = "done"

\* C18: when set_sampling_time, check_status or acquire has been left, on
\* whatever path, no transport handle that a connect of the operation has
\* created is still open.
C18_ScopedHandles ==
    /\ (SetSamplingTimeLeft \/ CheckStatusLeft) => ~ControlHandleOpen
    /\ AcquireLeft => ~DataHandleOpen

\* C20: a DeviceError in set_sampling_time or in check_status does not end
\* acquire: check_status is still run, the data connection is still attempted
\* and, once it is open, get_data is called; and the control handle is never
\* open while the data handle exists.
C20_ConfigurationFailureSwallowed ==
    /\ (AcquireLeft /\ sst_result = "DeviceError") => cs_result # "none"
    /\ (AcquireLeft /\ cs_result = "DeviceError") =>
           /\ data_socket # "none"
           /\ data_socket = "closed" => pc = "done"
    /\ ~(ControlHandleOpen /\ data_socket # "none" /\ data_socket # "closed")

=============================================================================
